---- MODULE Spec2Model ----
(***************************************************************************)
(* Protocol engine of the Boss Katana MIDI controller (src/main.py):       *)
(* KatanaHandler (connect, _midi_worker, send_request, cycle_effect,       *)
(* toggle_effect, apply_preset), refresh_worker, and the button / web      *)
(* entry points that call into it.                                         *)
(*                                                                         *)
(* Spec     : every handler invocation is one step.                        *)
(* SpecConc : cycle_effect is split at its reads, writes and sends, and    *)
(*            two caller threads run it with no lock, as the code does.    *)
(***************************************************************************)
EXTENDS Integers, Sequences, FiniteSets, TLC

\* ------------------------------------------------------------------------
\* Bounds of the model
\* ------------------------------------------------------------------------

\* inbound value bytes are drawn from 0..MaxVal (the wire allows 0..127)
MaxVal == 2

\* a preset holds at most MaxPresetLen entries
MaxPresetLen == 2

\* SpecConc: inbound frames the reader processes while the callers run
MaxRx == 1

\* SpecCodec: a frame is built around at most MaxPayload payload bytes
MaxPayload == 2

\* SpecDev: replies of the amplifier waiting to be polled
MaxInbox == 1

\* SpecDev: operations of the user and turns of a knob on the amplifier
MaxEvents == 1

\* ------------------------------------------------------------------------
\* Program constants
\* ------------------------------------------------------------------------

KATANA_HEADER == <<65, 16, 1, 5, 7>>

CMD_DT1 == 18

CMD_RQ1 == 17

\* default size argument of send_request
REQ_SIZE == <<0, 0, 0, 1>>

\* time.sleep(0.015) in apply_preset, in milliseconds
SETTLE_MS == 15

\* time.sleep(0.06) in refresh_worker, in milliseconds
PACING_MS == 60

\* refresh_worker waits while time.time() - last_interaction_time < 2.0
QUIET_S == 2

\* sysex frames shorter than this are ignored by _midi_worker
MIN_REPLY_LEN == 11

\* ------------------------------------------------------------------------
\* SETTINGS: the parameter registry.  Two rows of the table are kept, in
\* table order: one without a switch address whose labels contain "OFF",
\* one with a switch address.  sw_addr = <<>> stands for a row without the
\* "sw_addr" key.
\* ------------------------------------------------------------------------

KeyOrder == <<"Var", "Boost">>

Keys == {KeyOrder[i] : i \in 1..Len(KeyOrder)}

SETTINGS ==
  [k \in Keys |->
     IF k = "Var"
       THEN [addr |-> <<32, 0, 6, 9>>, sw_addr |-> <<>>,
             vals |-> <<"OFF", "ON">>]
       ELSE [addr |-> <<32, 0, 4, 0>>, sw_addr |-> <<32, 0, 3, 0>>,
             vals |-> <<"GREEN", "RED", "YELLOW">>]]

\* "sw_addr" in SETTINGS[key]
HasSw(k) == SETTINGS[k].sw_addr # <<>>

NumVals(k) == Len(SETTINGS[k].vals)

\* an address that belongs to no row of SETTINGS
FOREIGN_ADDR == <<96, 0, 0, 0>>

\* a key that is not in SETTINGS
NO_KEY == "Nope"

\* ------------------------------------------------------------------------
\* Message codec
\* ------------------------------------------------------------------------

RECURSIVE SumSeq(_)
SumSeq(s) == IF s = <<>> THEN 0 ELSE Head(s) + SumSeq(Tail(s))

\* _calculate_checksum without its outer modulo
CalculateChecksumNoWrap(data) == 128 - (SumSeq(data) % 128)

\* _calculate_checksum
CalculateChecksum(data) == (128 - (SumSeq(data) % 128)) % 128

\* _create_sysex_msg: the data bytes of the sysex message
CreateSysexMsg(cmd, addr, data_or_size) ==
  [type |-> "sysex",
   data |-> KATANA_HEADER \o <<cmd>> \o addr \o data_or_size
            \o <<CalculateChecksum(addr \o data_or_size)>>]

\* _prefill_cache: one DT1 message per label of every key
PrefilledCache ==
  [k \in Keys |->
     [i \in 1..NumVals(k) |-> CreateSysexMsg(CMD_DT1, SETTINGS[k].addr, <<i - 1>>)]]

\* msg_cache = {} after __init__; rows are looked up only once connected
EmptyCache == [k \in Keys |-> <<>>]

\* events recorded on the output side: a message handed to outport.send,
\* or a time.sleep between sends
Send(msg) == [ev |-> "send", msg |-> msg.data]

Sleep(ms) == [ev |-> "sleep", msg |-> <<ms>>]

ValueFrame(k, idx) == Send(CreateSysexMsg(CMD_DT1, SETTINGS[k].addr, <<idx>>))

SwitchFrame(k, v) == Send(CreateSysexMsg(CMD_DT1, SETTINGS[k].sw_addr, <<v>>))

RequestFrame(addr) == Send(CreateSysexMsg(CMD_RQ1, addr, REQ_SIZE))

\* ------------------------------------------------------------------------
\* State
\* ------------------------------------------------------------------------

VARIABLES
  app_status,        \* "INIT" | "SYNC" | "OK" | "NO_USB"
  ports,             \* TRUE once outport and inport are open
  msg_cache,         \* key -> cached DT1 messages
  current_vals,      \* key -> value index
  active_states,     \* key -> BOOLEAN
  pending_requests,  \* addresses with a request outstanding
  synced_count,
  reader,            \* "none" | "running" | "dead": the _midi_worker thread
  refresh_i,         \* refresh_worker: 0 between rounds, else index in KeyOrder
  refresh_ph,        \* refresh_worker: "val" | "sw", the next request of the pair
  since,             \* seconds since last_interaction_time, capped at QUIET_S
  out,               \* output events of the last step (SpecConc: of the run)
  notified,          \* on_change calls of the last step (SpecConc: of the run)
  notified_at,       \* for each of them, the output events that preceded it
  timed_out,         \* SpecSync: TRUE once time.time() - start_time >= 5.0
  replied,           \* SpecSync: addresses a reply was processed for since connect
  round,             \* refresh_worker: addresses requested in its latest round
  was_held,          \* ButtonHandler.was_held of the one button modelled
  device,            \* SpecDev: the amplifier and the frames it has sent back
  op,                \* the handler that ran last, with its arguments
  run,               \* consecutive effective cycle_effect calls on one key
  pc,                \* SpecConc: position of each caller thread
  loc,               \* SpecConc: locals of each caller thread
  rx                 \* SpecConc: inbound frames processed so far

vars == <<app_status, ports, msg_cache, current_vals, active_states,
          pending_requests, synced_count, reader, refresh_i, refresh_ph,
          since, out, notified, notified_at, timed_out, replied, round,
          was_held, device, op, run, pc, loc, rx>>

engine == <<app_status, ports, msg_cache, current_vals, active_states,
            pending_requests, synced_count>>

Threads == {"button", "web"}

NoOp == [name |-> "init", key |-> "", data |-> <<>>, msg |-> <<>>]

NoRun == [key |-> "", n |-> 0, start |-> 0, frames |-> 0]

IdleLoc == [key |-> "", next_idx |-> 0, start |-> 0]

concIdle == /\ pc' = pc /\ loc' = loc /\ rx' = rx

\* KatanaHandler.__init__ and the module globals
\* nothing is modelled behind the ports
NoDevice ==
  [vals |-> [k \in Keys |-> 0], act |-> [k \in Keys |-> TRUE],
   inbox |-> <<>>, left |-> 0]

Init ==
  /\ app_status = "INIT"
  /\ ports = FALSE
  /\ msg_cache = EmptyCache
  /\ current_vals = [k \in Keys |-> 0]
  /\ active_states = [k \in Keys |-> TRUE]
  /\ pending_requests = {}
  /\ synced_count = 0
  /\ reader = "none"
  /\ refresh_i = 0
  /\ refresh_ph = "val"
  /\ since = QUIET_S
  /\ out = <<>>
  /\ notified = 0
  /\ notified_at = <<>>
  /\ timed_out = FALSE
  /\ was_held = FALSE
  /\ device = NoDevice
  /\ replied = {}
  /\ round = <<>>
  /\ op = NoOp
  /\ run = NoRun
  /\ pc = [t \in Threads |-> "idle"]
  /\ loc = [t \in Threads |-> IdleLoc]
  /\ rx = 0

\* ------------------------------------------------------------------------
\* connect (one pass of its while loop)
\* ------------------------------------------------------------------------

\* endpoints found: open both, SYNC, prefill, on_change, start the reader,
\* on_change again
ConnectFound ==
  /\ reader = "none"
  /\ ports' = TRUE
  /\ app_status' = "SYNC"
  /\ msg_cache' = PrefilledCache
  /\ reader' = "running"
  /\ notified' = 2
  /\ notified_at' = <<0, 0>>
  /\ out' = <<>>
  /\ op' = [NoOp EXCEPT !.name = "connect"]
  /\ run' = NoRun
  /\ UNCHANGED <<current_vals, active_states, pending_requests, synced_count,
                 refresh_i, refresh_ph, since, timed_out, replied, round>>
  /\ concIdle
  /\ was_held' = was_held
  /\ device' = device

\* the startup clock passes 5 s while connect is still looping
StartupTimeout ==
  /\ reader = "none"
  /\ ~timed_out
  /\ timed_out' = TRUE
  /\ out' = <<>>
  /\ notified' = 0
  /\ notified_at' = <<>>
  /\ op' = [NoOp EXCEPT !.name = "clock"]
  /\ run' = NoRun
  /\ UNCHANGED engine
  /\ UNCHANGED <<reader, refresh_i, refresh_ph, since, replied, round>>
  /\ concIdle
  /\ was_held' = was_held
  /\ device' = device

\* discovery raised: NO_USB once 5 s have elapsed since start (late), then
\* sleep 0.5 and retry
ConnectRaised(late) ==
  /\ reader = "none"
  /\ app_status' = IF late THEN "NO_USB" ELSE app_status
  /\ notified' = IF late THEN 1 ELSE 0
  /\ notified_at' = IF late THEN <<0>> ELSE <<>>
  /\ out' = <<>>
  /\ op' = [NoOp EXCEPT !.name = "connect_raised"]
  /\ run' = NoRun
  /\ UNCHANGED <<ports, msg_cache, current_vals, active_states,
                 pending_requests, synced_count, reader, refresh_i,
                 refresh_ph, since, timed_out, replied, round>>
  /\ concIdle
  /\ was_held' = was_held
  /\ device' = device

\* no name contains "KATANA" and nothing raised: the if is skipped and the
\* while loop starts over at once
ConnectNotFound ==
  /\ reader = "none"
  /\ out' = <<>>
  /\ notified' = 0
  /\ notified_at' = <<>>
  /\ op' = [NoOp EXCEPT !.name = "connect_notfound"]
  /\ run' = NoRun
  /\ UNCHANGED engine
  /\ UNCHANGED <<reader, refresh_i, refresh_ph, since, timed_out, replied, round>>
  /\ concIdle
  /\ was_held' = was_held
  /\ device' = device

\* ------------------------------------------------------------------------
\* _midi_worker
\* ------------------------------------------------------------------------

RegistryAddrs ==
  {SETTINGS[k].addr : k \in Keys} \cup {SETTINGS[k].sw_addr : k \in {j \in Keys : HasSw(j)}}

\* a reply of the device for addr carrying value v
Reply(addr, v) == CreateSysexMsg(CMD_DT1, addr, <<v>>)

\* the addresses refresh_worker requests for the first n rows, in order
RECURSIVE RoundUpTo(_)
RoundUpTo(n) ==
  IF n = 0 THEN <<>>
  ELSE LET k == KeyOrder[n]
       IN RoundUpTo(n - 1) \o <<SETTINGS[k].addr>>
            \o (IF HasSw(k) THEN <<SETTINGS[k].sw_addr>> ELSE <<>>)

\* the addresses of one complete round of refresh_worker
FullRound == RoundUpTo(Len(KeyOrder))

\* a sysex message with fewer than 11 data bytes
ShortMsg == [type |-> "sysex", data |-> KATANA_HEADER \o <<CMD_DT1>> \o SETTINGS["Var"].addr]

\* a message that is not a sysex message
OtherMsg == [type |-> "control_change", data |-> <<>>]

Inbound ==
  {Reply(a, v) : a \in RegistryAddrs \cup {FOREIGN_ADDR}, v \in 0..MaxVal}
    \cup {ShortMsg, OtherMsg}

\* if msg.type == 'sysex' and len(msg.data) >= 11
Accepted(msg) == msg.type = "sysex" /\ Len(msg.data) >= MIN_REPLY_LEN

\* list(msg.data[6:10])
AddrRecv(msg) == SubSeq(msg.data, 7, 10)

\* msg.data[10]
ValRecv(msg) == msg.data[11]

\* total_expected as _midi_worker counts it
TotalExpected == Cardinality(Keys) + Cardinality({k \in Keys : HasSw(k)})

\* the scan leaving current_vals as it is
ScanValsIgnored(vals, addr, val) == vals

\* the scan of SETTINGS: current_vals after a frame (addr, val)
ScanVals(vals, addr, val) ==
  [k \in Keys |-> IF SETTINGS[k].addr = addr THEN val ELSE vals[k]]

\* the scan with new_state = (val_recv != 0)
ScanActiveNonZero(act, addr, val) ==
  [k \in Keys |->
     IF SETTINGS[k].addr # addr /\ HasSw(k) /\ SETTINGS[k].sw_addr = addr
       THEN (val # 0) ELSE act[k]]

\* the scan of SETTINGS: active_states after a frame (addr, val)
ScanActive(act, addr, val) ==
  [k \in Keys |->
     IF SETTINGS[k].addr # addr /\ HasSw(k) /\ SETTINGS[k].sw_addr = addr
       THEN (val = 1) ELSE act[k]]

\* synced_count never incremented
SyncedAfterNever(addr) == synced_count

\* synced_count incremented for every frame processed while in SYNC
SyncedAfterAnyFrame(addr) ==
  IF app_status = "SYNC" THEN synced_count + 1 ELSE synced_count

\* synced_count after the pending lookup
SyncedAfter(addr) ==
  IF addr \in pending_requests /\ app_status = "SYNC"
    THEN synced_count + 1 ELSE synced_count

\* SyncDone with the comparison off by one
SyncDoneEarly(count) == app_status = "SYNC" /\ count >= TotalExpected - 1

\* if is_initial_sync and self.synced_count >= total_expected
SyncDone(count) == app_status = "SYNC" /\ count >= TotalExpected

\* the body of the for loop over iter_pending, for one message
MidiWorkerEffect(msg) ==
  IF ~Accepted(msg)
    THEN UNCHANGED engine
    ELSE LET addr == AddrRecv(msg)
             val == ValRecv(msg)
             cnt == SyncedAfter(addr)
         IN /\ pending_requests' = pending_requests \ {addr}
            /\ synced_count' = cnt
            /\ current_vals' = ScanVals(current_vals, addr, val)
            /\ active_states' = ScanActive(active_states, addr, val)
            /\ app_status' = IF SyncDone(cnt) THEN "OK" ELSE app_status
            /\ UNCHANGED <<ports, msg_cache>>

\* _midi_worker with on_change called for every message polled
MidiWorkerChangedAlways(msg) == TRUE

\* _midi_worker with changed = True for every frame that names a row, even
\* when the value it carries is the one already held
MidiWorkerChangedOnMatch(msg) ==
  Accepted(msg) /\ AddrRecv(msg) \in RegistryAddrs

\* the flag "changed" at the end of the loop body
MidiWorkerChanged(msg) ==
  /\ Accepted(msg)
  /\ \/ ScanVals(current_vals, AddrRecv(msg), ValRecv(msg)) # current_vals
     \/ ScanActive(active_states, AddrRecv(msg), ValRecv(msg)) # active_states
     \/ SyncDone(SyncedAfter(AddrRecv(msg)))

\* the addresses a reply has been processed for, after msg
RepliedAfter(msg) ==
  IF Accepted(msg) /\ AddrRecv(msg) \in RegistryAddrs
    THEN replied \cup {AddrRecv(msg)} ELSE replied

\* _midi_worker with "continue" in place of "break" in its except branch
ReaderAliveAfterRaise == reader # "none"

\* the while loop of _midi_worker has not left through "break"
ReaderAlive == reader = "running"

\* one message of iter_pending, processed by the reader
MidiWorkerStep(msg) ==
  /\ ReaderAlive
  /\ ports
  /\ MidiWorkerEffect(msg)
  /\ notified' = IF MidiWorkerChanged(msg) THEN 1 ELSE 0
  /\ notified_at' = IF MidiWorkerChanged(msg) THEN <<0>> ELSE <<>>
  /\ out' = <<>>
  /\ op' = [NoOp EXCEPT !.name = "rx", !.key = msg.type, !.msg = msg.data]
  /\ run' = NoRun
  /\ UNCHANGED <<reader, refresh_i, refresh_ph, since, timed_out, round>>
  /\ concIdle
  /\ was_held' = was_held

\* the same, without the bookkeeping of answered addresses
MidiWorkerMsg(msg) ==
  /\ MidiWorkerStep(msg)
  /\ replied' = replied
  /\ device' = device

\* the same, recording the address the reply answers (SpecSync)
MidiWorkerTracked(msg) ==
  /\ MidiWorkerStep(msg)
  /\ replied' = RepliedAfter(msg)
  /\ device' = device

\* iter_pending raises: except Exception: break
MidiWorkerRaised ==
  /\ reader = "running"
  /\ reader' = "dead"
  /\ out' = <<>>
  /\ notified' = 0
  /\ notified_at' = <<>>
  /\ op' = [NoOp EXCEPT !.name = "rx_raised"]
  /\ run' = NoRun
  /\ UNCHANGED engine
  /\ UNCHANGED <<refresh_i, refresh_ph, since, timed_out, replied, round>>
  /\ concIdle
  /\ was_held' = was_held
  /\ device' = device

\* ------------------------------------------------------------------------
\* refresh_worker and send_request
\* ------------------------------------------------------------------------

\* send_request: register the address, then send the RQ1 message
\* send_request without the pending_requests entry
PendingAfterRequestForgets(addr) == pending_requests

PendingAfterRequest(addr) ==
  IF ports THEN pending_requests \cup {addr} ELSE pending_requests

SentByRequest(addr) == IF ports THEN <<RequestFrame(addr)>> ELSE <<>>

\* the addresses requested in this round, after a send_request for addr
RoundAfterRequest(addr) == IF ports THEN Append(round, addr) ELSE round

\* refresh_worker without its while loop on last_interaction_time
QuietElapsedAlways == TRUE

\* (time.time() - last_interaction_time) < 2.0 is false
QuietElapsed == since >= QUIET_S

RefreshAdvance ==
  /\ refresh_i' = IF refresh_i = Len(KeyOrder) THEN 0 ELSE refresh_i + 1
  /\ refresh_ph' = "val"

\* top of the outer loop: a round starts when the status is SYNC or OK
RefreshStart ==
  /\ refresh_i = 0
  /\ app_status \in {"SYNC", "OK"}
  /\ ports
  /\ refresh_i' = 1
  /\ refresh_ph' = "val"
  /\ round' = <<>>
  /\ out' = <<>>
  /\ notified' = 0
  /\ notified_at' = <<>>
  /\ op' = [NoOp EXCEPT !.name = "refresh_start"]
  /\ run' = NoRun
  /\ UNCHANGED engine
  /\ UNCHANGED <<reader, since, timed_out, replied>>
  /\ concIdle
  /\ was_held' = was_held
  /\ device' = device

\* the value request of a key, once no interaction is more recent than 2 s
RefreshValueStep ==
  /\ refresh_i >= 1
  /\ refresh_ph = "val"
  /\ QuietElapsed
  /\ LET k == KeyOrder[refresh_i]
     IN /\ pending_requests' = PendingAfterRequest(SETTINGS[k].addr)
        /\ round' = RoundAfterRequest(SETTINGS[k].addr)
        /\ out' = SentByRequest(SETTINGS[k].addr) \o <<Sleep(PACING_MS)>>
        /\ op' = [NoOp EXCEPT !.name = "refresh_val", !.key = k]
        /\ run' = NoRun
        /\ IF HasSw(k)
             THEN refresh_ph' = "sw" /\ refresh_i' = refresh_i
             ELSE RefreshAdvance
  /\ notified' = 0
  /\ notified_at' = <<>>
  /\ UNCHANGED <<app_status, ports, msg_cache, current_vals, active_states,
                 synced_count, reader, since, timed_out, replied>>
  /\ concIdle
  /\ was_held' = was_held

\* the switch request of the same key, 60 ms later
RefreshSwitchStep ==
  /\ refresh_i >= 1
  /\ refresh_ph = "sw"
  /\ LET k == KeyOrder[refresh_i]
     IN /\ pending_requests' = PendingAfterRequest(SETTINGS[k].sw_addr)
        /\ round' = RoundAfterRequest(SETTINGS[k].sw_addr)
        /\ out' = SentByRequest(SETTINGS[k].sw_addr) \o <<Sleep(PACING_MS)>>
        /\ op' = [NoOp EXCEPT !.name = "refresh_sw", !.key = k]
        /\ run' = NoRun
  /\ RefreshAdvance
  /\ notified' = 0
  /\ notified_at' = <<>>
  /\ UNCHANGED <<app_status, ports, msg_cache, current_vals, active_states,
                 synced_count, reader, since, timed_out, replied>>
  /\ concIdle
  /\ was_held' = was_held

\* the two requests when nothing is modelled behind the ports
RefreshValue ==
  /\ RefreshValueStep
  /\ device' = device

RefreshSwitch ==
  /\ RefreshSwitchStep
  /\ device' = device

\* ------------------------------------------------------------------------
\* cycle_effect, toggle_effect, apply_preset.  Each yields the store, the
\* output events and the number of on_change calls it leaves behind.
\* ------------------------------------------------------------------------

Untouched ==
  [vals |-> current_vals, act |-> active_states, out |-> <<>>, n |-> 0,
   at |-> <<>>]

\* NotReady without the status test
NotReadyPortsOnly == ~ports

\* if self.app_status != "OK" or not self.outport
NotReady == app_status # "OK" \/ ~ports

\* next_idx = (current_idx + 1) % num_vals
NextIdx(current_idx, num_vals) == (current_idx + 1) % num_vals

\* NeedsSwitchOn without the test of active_states
NeedsSwitchOnAlways(act, key) == HasSw(key)

\* not self.active_states[key] and "sw_addr" in SETTINGS[key]
NeedsSwitchOn(act, key) == ~act[key] /\ HasSw(key)

\* the body of cycle_effect past its guard, on the store s
CycleBody(s, key) ==
  LET next_idx == NextIdx(s.vals[key], NumVals(key))
      sw == NeedsSwitchOn(s.act, key)
  IN [vals |-> [s.vals EXCEPT ![key] = next_idx],
      act |-> IF sw THEN [s.act EXCEPT ![key] = TRUE] ELSE s.act,
      out |-> s.out \o <<Send(msg_cache[key][next_idx + 1])>>
                    \o (IF sw THEN <<SwitchFrame(key, 1)>> ELSE <<>>),
      n |-> s.n + 1,
      at |-> Append(s.at, Len(s.out) + (IF sw THEN 2 ELSE 1))]

CycleEffect(key) ==
  IF NotReady \/ key \notin Keys THEN Untouched ELSE CycleBody(Untouched, key)

\* SwitchByte with the two bytes exchanged
SwitchByteInverted(active) == IF active THEN 0 ELSE 1

\* val = 0x01 if self.active_states[key] else 0x00
SwitchByte(active) == IF active THEN 1 ELSE 0

\* is_invalid without its test for "sw_addr"
ToggleInvalidAnyRow(key) == NotReady \/ key \notin Keys

\* is_invalid of toggle_effect
ToggleInvalid(key) == NotReady \/ key \notin Keys \/ ~HasSw(key)

\* the body of toggle_effect past its guard, on the store s
ToggleBody(s, key) ==
  LET flipped == ~s.act[key]
  IN [vals |-> s.vals,
      act |-> [s.act EXCEPT ![key] = flipped],
      out |-> s.out \o <<SwitchFrame(key, SwitchByte(flipped))>>,
      n |-> s.n + 1,
      at |-> Append(s.at, Len(s.out) + 1)]

ToggleEffect(key) ==
  IF ToggleInvalid(key) THEN Untouched ELSE ToggleBody(Untouched, key)

\* cfg["vals"].index(target), as a 0-based index
IndexOf(labels, target) ==
  (CHOOSE i \in 1..Len(labels) :
     labels[i] = target /\ \A j \in 1..(i - 1) : labels[j] # target) - 1

\* target in cfg["vals"]
IsLabel(key, target) == \E i \in 1..NumVals(key) : SETTINGS[key].vals[i] = target

\* PresetOff without the test of active_states
PresetOffAlways(s, key) ==
  [s EXCEPT !.act[key] = FALSE,
            !.out = s.out \o <<SwitchFrame(key, 0), Sleep(SETTLE_MS)>>]

\* Case 1 of the loop body: turning OFF
PresetOff(s, key) ==
  IF s.act[key]
    THEN [s EXCEPT !.act[key] = FALSE,
                   !.out = s.out \o <<SwitchFrame(key, 0), Sleep(SETTLE_MS)>>]
    ELSE s

\* Case 2, first half: turn ON if it was OFF
PresetActivate(s, key) ==
  IF HasSw(key) /\ ~s.act[key]
    THEN [s EXCEPT !.act[key] = TRUE,
                   !.out = s.out \o <<SwitchFrame(key, 1), Sleep(SETTLE_MS)>>]
    ELSE s

\* Case 2, second half, sending the value whether it differs or not
PresetValueAlways(s, key, target_idx) ==
  [s EXCEPT !.vals[key] = target_idx,
            !.out = s.out \o <<Send(msg_cache[key][target_idx + 1]),
                               Sleep(SETTLE_MS)>>]

\* Case 2, second half: update the value if different
PresetValue(s, key, target_idx) ==
  IF s.vals[key] # target_idx
    THEN [s EXCEPT !.vals[key] = target_idx,
                   !.out = s.out \o <<Send(msg_cache[key][target_idx + 1]),
                                      Sleep(SETTLE_MS)>>]
    ELSE s

\* PresetEntry writing the value before it turns the effect on
PresetEntryValueFirst(s, e) ==
  IF e.key \notin Keys THEN s
  ELSE IF e.target = "OFF" /\ HasSw(e.key) THEN PresetOff(s, e.key)
  ELSE IF IsLabel(e.key, e.target)
    THEN PresetActivate(PresetValue(s, e.key,
                                    IndexOf(SETTINGS[e.key].vals, e.target)),
                        e.key)
  ELSE s

\* the body of "for key, target in data.items()"
PresetEntry(s, e) ==
  IF e.key \notin Keys THEN s
  ELSE IF e.target = "OFF" /\ HasSw(e.key) THEN PresetOff(s, e.key)
  ELSE IF IsLabel(e.key, e.target)
    THEN PresetValue(PresetActivate(s, e.key), e.key,
                     IndexOf(SETTINGS[e.key].vals, e.target))
  ELSE s

\* PresetEntries giving up at the first key that is not in SETTINGS
RECURSIVE PresetEntriesAbort(_, _)
PresetEntriesAbort(s, data) ==
  IF data = <<>> THEN s
  ELSE IF Head(data).key \notin Keys THEN s
  ELSE PresetEntriesAbort(PresetEntry(s, Head(data)), Tail(data))

RECURSIVE PresetEntries(_, _)
PresetEntries(s, data) ==
  IF data = <<>> THEN s
  ELSE PresetEntries(PresetEntry(s, Head(data)), Tail(data))

\* save_preset_to_button reaches PRESETS[...] = new_preset_data: no active
\* row makes SETTINGS[k]["vals"][idx] raise
Captured == \A k \in Keys : active_states[k] => current_vals[k] < NumVals(k)

\* new_preset_data of save_preset_to_button, in the order of SETTINGS
NewPresetData ==
  [i \in 1..Len(KeyOrder) |->
     LET k == KeyOrder[i]
     IN [key |-> k,
         target |-> IF ~active_states[k]
                      THEN "OFF"
                      ELSE SETTINGS[k].vals[current_vals[k] + 1]]]

\* ApplyPreset with self.on_change() called ahead of the for loop
ApplyPresetNotifyFirst(data) ==
  IF NotReady
    THEN Untouched
    ELSE [PresetEntries(Untouched, data) EXCEPT !.n = 1, !.at = <<0>>]

ApplyPreset(data) ==
  IF NotReady
    THEN Untouched
    ELSE LET s == PresetEntries(Untouched, data)
         IN [s EXCEPT !.n = 1, !.at = <<Len(s.out)>>]

\* ------------------------------------------------------------------------
\* Presets offered to apply_preset: PRESETS is user-editable, so any mapping
\* of known or unknown keys to label strings can be stored in it.  A dict
\* holds each key once, in insertion order.
\* ------------------------------------------------------------------------

PresetKeys == Keys \cup {NO_KEY}

\* "OFF" is a label of Var and the switch-off word for Boost; "ON" is a
\* label of Var only, "RED" a label of Boost only
PresetTargets == {"OFF", "ON", "RED"}

PresetEntrySet == [key : PresetKeys, target : PresetTargets]

RECURSIVE PresetsUpTo(_)
PresetsUpTo(n) ==
  IF n = 0 THEN {<<>>}
  ELSE LET shorter == PresetsUpTo(n - 1)
       IN shorter \cup
          {Append(d, e) : d \in {x \in shorter : Len(x) = n - 1},
                          e \in PresetEntrySet}

DistinctKeys(d) == \A i, j \in 1..Len(d) : i # j => d[i].key # d[j].key

PresetData == {d \in PresetsUpTo(MaxPresetLen) : DistinctKeys(d)}

\* presets of at most one entry
ShortPresets == {d \in PresetData : Len(d) <= 1}

\* ------------------------------------------------------------------------
\* handle_web_control: the remote entry point of the three operations
\* ------------------------------------------------------------------------

\* the writes, sends and on_change calls of an operation
Apply(res) ==
  /\ current_vals' = res.vals
  /\ active_states' = res.act
  /\ out' = res.out
  /\ notified' = res.n
  /\ notified_at' = res.at
  /\ UNCHANGED <<app_status, ports, msg_cache, pending_requests, synced_count,
                 reader, refresh_i, refresh_ph, timed_out, replied, round>>
  /\ concIdle

\* an operation called through handle_web_control, which leaves
\* last_interaction_time alone
Commit(res) ==
  /\ Apply(res)
  /\ since' = since
  /\ was_held' = was_held
  /\ device' = device

\* DOMAIN of events whose event is a DT1 message to addr
SetFramesTo(events, addr) ==
  {i \in 1..Len(events) :
     /\ events[i].ev = "send"
     /\ events[i].msg[6] = CMD_DT1
     /\ SubSeq(events[i].msg, 7, 10) = addr}

\* bookkeeping of consecutive effective cycle_effect calls on one key: how
\* many, the index before the first, the DT1 messages sent to its address
RunAfterCycle(key, res) ==
  IF NotReady \/ key \notin Keys THEN NoRun
  ELSE LET sent == Cardinality(SetFramesTo(res.out, SETTINGS[key].addr))
       IN IF run.key = key /\ run.n < NumVals(key)
            THEN [run EXCEPT !.n = run.n + 1, !.frames = run.frames + sent]
            ELSE [key |-> key, n |-> 1, start |-> current_vals[key],
                  frames |-> sent]

\* time passes: one more second since the last button event (counted up to
\* the 2 s refresh_worker compares with)
Tick ==
  /\ since < QUIET_S
  /\ since' = since + 1
  /\ out' = <<>>
  /\ notified' = 0
  /\ notified_at' = <<>>
  /\ op' = [NoOp EXCEPT !.name = "clock"]
  /\ run' = NoRun
  /\ UNCHANGED engine
  /\ UNCHANGED <<reader, refresh_i, refresh_ph, timed_out, replied, round,
                 was_held, device>>
  /\ concIdle

\* when_held in DIRECT mode: last_interaction_time = time.time(), then
\* toggle_effect if the button is mapped to a row of SETTINGS
HandleHold(target) ==
  /\ Apply(IF target \in Keys THEN ToggleEffect(target) ELSE Untouched)
  /\ since' = 0
  /\ was_held' = TRUE
  /\ device' = device
  /\ op' = [NoOp EXCEPT !.name = "toggle", !.key = target]
  /\ run' = NoRun

\* when_released in DIRECT mode: after a hold only was_held is cleared;
\* otherwise last_interaction_time = time.time(), then cycle_effect if the
\* button is mapped to a row of SETTINGS
HandleRelease(target) ==
  IF was_held
    THEN /\ Apply(Untouched)
         /\ since' = since
         /\ was_held' = FALSE
         /\ device' = device
         /\ op' = [NoOp EXCEPT !.name = "release"]
         /\ run' = NoRun
    ELSE /\ Apply(IF target \in Keys THEN CycleEffect(target) ELSE Untouched)
         /\ since' = 0
         /\ was_held' = FALSE
         /\ device' = device
         /\ op' = [NoOp EXCEPT !.name = "cycle", !.key = target]
         /\ run' = IF target \in Keys
                     THEN RunAfterCycle(target, CycleEffect(target))
                     ELSE NoRun

\* DIRECT mode, action other than 'toggle'
HandleWebCycle(target) ==
  /\ Commit(CycleEffect(target))
  /\ run' = RunAfterCycle(target, CycleEffect(target))
  /\ op' = [NoOp EXCEPT !.name = "cycle", !.key = target]

\* DIRECT mode, action 'toggle'
HandleWebToggle(target) ==
  /\ Commit(ToggleEffect(target))
  /\ op' = [NoOp EXCEPT !.name = "toggle", !.key = target]
  /\ run' = NoRun

\* PRESET mode
HandleWebPreset(data) ==
  /\ Commit(ApplyPreset(data))
  /\ op' = [NoOp EXCEPT !.name = "preset", !.data = data]
  /\ run' = NoRun

\* ------------------------------------------------------------------------
\* Spec: the engine from construction on; every handler invocation is one
\* step; presets of at most one entry
\* ------------------------------------------------------------------------

Next ==
  \/ ConnectFound
  \/ \E late \in BOOLEAN : ConnectRaised(late)
  \/ \E msg \in Inbound : MidiWorkerMsg(msg)
  \/ RefreshStart
  \/ RefreshValue
  \/ RefreshSwitch
  \/ \E target \in PresetKeys : HandleWebCycle(target)
  \/ \E target \in PresetKeys : HandleWebToggle(target)
  \/ \E data \in ShortPresets : HandleWebPreset(data)

Spec == Init /\ [][Next]_vars

\* ------------------------------------------------------------------------
\* Properties of the connection state machine and of cycle / toggle (Spec)
\* ------------------------------------------------------------------------

\* parameters plus parameters with a switch address
ExpectedReplies == Cardinality(Keys) + Cardinality({k \in Keys : HasSw(k)})

\* C1: while SYNC the count of resolved requests is below the number of
\* parameters plus parameters with a switch; OK is entered only by the reader,
\* from SYNC, on the frame that brings synced_count to that number; OK is
\* never held with fewer resolved
SyncReadyAtTotal ==
  /\ [](app_status = "SYNC" => synced_count < ExpectedReplies)
  /\ [](app_status = "OK" => synced_count >= ExpectedReplies)
  /\ [][(app_status # "OK" /\ app_status' = "OK")
          => /\ app_status = "SYNC"
             /\ op'.name = "rx"
             /\ synced_count = ExpectedReplies - 1
             /\ synced_count' = ExpectedReplies]_vars
  /\ [][(app_status = "SYNC" /\ synced_count' < ExpectedReplies)
          => app_status' = "SYNC"]_vars

\* the reader has just moved the engine from SYNC to OK
SyncReadyReached ==
  /\ app_status = "OK"
  /\ op.name = "rx"
  /\ synced_count = ExpectedReplies
  /\ notified = 1

\* C2: every current value index is an index of the parameter's labels
IndexInRange ==
  \A k \in Keys : 0 <= current_vals[k] /\ current_vals[k] < NumVals(k)

\* the step is a call of one of the three operations that must do nothing:
\* status not OK, unknown key, or toggle of a key without switch address
IdleCall ==
  /\ op'.name \in {"cycle", "toggle", "preset"}
  /\ \/ app_status # "OK"
     \/ op'.name \in {"cycle", "toggle"} /\ op'.key \notin Keys
     \/ op'.name = "toggle" /\ op'.key \in Keys /\ ~HasSw(op'.key)

\* C4: cycle, toggle and apply_preset called while the status is not OK (or
\* cycle / toggle with an unknown key, or toggle without switch address) send
\* nothing, leave every index and active flag as it was and do not call
\* on_change
NoOpUnlessReady ==
  [][IdleCall => /\ current_vals' = current_vals
                 /\ active_states' = active_states
                 /\ out' = <<>>
                 /\ notified' = 0]_vars

\* a preset that would switch Boost off was applied while still syncing
NoOpWhileSyncing ==
  /\ op.name = "preset"
  /\ op.data = <<[key |-> "Boost", target |-> "OFF"]>>
  /\ app_status = "SYNC"
  /\ active_states["Boost"]
  /\ out = <<>>

\* C5: in OK, cycle on a known key stores (index + 1) mod number of labels,
\* sends one DT1 with that index to the value address, then, only for an
\* inactive key with a switch address, sets it active and sends DT1 [1] to the
\* switch address; on_change is called once
CycleAdvances ==
  [][(op'.name = "cycle" /\ app_status = "OK" /\ op'.key \in Keys)
      => LET k == op'.key
             nxt == (current_vals[k] + 1) % NumVals(k)
         IN /\ current_vals' = [current_vals EXCEPT ![k] = nxt]
            /\ IF HasSw(k) /\ ~active_states[k]
                 THEN /\ active_states' = [active_states EXCEPT ![k] = TRUE]
                      /\ out' = <<ValueFrame(k, nxt), SwitchFrame(k, 1)>>
                 ELSE /\ active_states' = active_states
                      /\ out' = <<ValueFrame(k, nxt)>>
            /\ notified' = 1]_vars

\* cycle has just re-enabled an inactive Boost
CycleReenabled ==
  /\ op.name = "cycle"
  /\ op.key = "Boost"
  /\ app_status = "OK"
  /\ Len(out) = 2
  /\ out[2] = SwitchFrame("Boost", 1)
  /\ active_states["Boost"]

\* C6: after as many consecutive cycle calls on a key as it has labels, the
\* index is the one before the first call and as many DT1 messages went to
\* the value address
CycleClosure ==
  (run.n > 0 /\ run.n = NumVals(run.key))
    => /\ current_vals[run.key] = run.start
       /\ run.frames = NumVals(run.key)

\* C7: in OK, toggle on a key with a switch address flips active, sends one
\* DT1 to the switch address carrying 1 for active and 0 for inactive, sends
\* nothing to the value address, keeps every index, calls on_change once; a
\* second toggle gives back the flag
ToggleFlips ==
  [][(op'.name = "toggle" /\ app_status = "OK" /\ op'.key \in Keys
        /\ HasSw(op'.key))
      => LET k == op'.key
             again == ToggleBody(ToggleBody(Untouched, k), k)
         IN /\ active_states' = [active_states EXCEPT ![k] = ~active_states[k]]
            /\ out' = <<SwitchFrame(k, IF active_states'[k] THEN 1 ELSE 0)>>
            /\ SetFramesTo(out', SETTINGS[k].addr) = {}
            /\ current_vals' = current_vals
            /\ notified' = 1
            /\ again.act = active_states]_vars

\* toggle has just switched Boost off
ToggledOff ==
  /\ op.name = "toggle"
  /\ op.key = "Boost"
  /\ app_status = "OK"
  /\ ~active_states["Boost"]
  /\ out = <<SwitchFrame("Boost", 0)>>

\* C20: a polled message that is not of type sysex, or that carries fewer
\* than 11 data bytes, is passed over: current_vals, active_states,
\* pending_requests, synced_count and the status stay as they are, on_change
\* is not called and the reader goes on
MalformedDropped ==
  [][(op'.name = "rx" /\ (op'.key # "sysex" \/ Len(op'.msg) < MIN_REPLY_LEN))
      => /\ current_vals' = current_vals
         /\ active_states' = active_states
         /\ pending_requests' = pending_requests
         /\ synced_count' = synced_count
         /\ app_status' = app_status
         /\ notified' = 0
         /\ reader' = "running"]_vars

\* while syncing, a sysex message of 10 data bytes whose address bytes name
\* a pending request has been passed over
ShortReplyDropped ==
  /\ op.name = "rx"
  /\ op.key = "sysex"
  /\ Len(op.msg) = MIN_REPLY_LEN - 1
  /\ SubSeq(op.msg, 7, 10) \in pending_requests
  /\ app_status = "SYNC"
  /\ notified = 0
  /\ reader = "running"

\* the step just taken processed a sysex message of 11 or more data bytes
FrameProcessed == op'.name = "rx" /\ op'.key = "sysex" /\ Len(op'.msg) >= MIN_REPLY_LEN

\* C21: a processed frame (address, value) changes at most one field of the
\* store: the index of the row whose value address it names becomes value;
\* or else the active flag of the row whose switch address it names becomes
\* (value = 1); every other index and flag keeps its value, and a frame that
\* names no address of the registry changes nothing
FrameChangesOneField ==
  [][FrameProcessed
      => LET addr == SubSeq(op'.msg, 7, 10)
             val == op'.msg[11]
         IN /\ \A k \in Keys :
                 /\ current_vals'[k] =
                      IF SETTINGS[k].addr = addr THEN val ELSE current_vals[k]
                 /\ active_states'[k] =
                      IF HasSw(k) /\ SETTINGS[k].sw_addr = addr
                        THEN (val = 1) ELSE active_states[k]
            /\ Cardinality({k \in Keys : current_vals'[k] # current_vals[k]})
                 + Cardinality({k \in Keys :
                                  active_states'[k] # active_states[k]}) <= 1
            /\ addr \notin RegistryAddrs
                 => current_vals' = current_vals
                      /\ active_states' = active_states]_vars

\* a frame for the switch address of Boost with a value other than 0 and 1
\* has switched Boost off
SwitchFrameOtherValue ==
  /\ op.name = "rx"
  /\ Len(op.msg) >= MIN_REPLY_LEN
  /\ SubSeq(op.msg, 7, 10) = SETTINGS["Boost"].sw_addr
  /\ op.msg[11] = 2
  /\ ~active_states["Boost"]
  /\ notified = 1

\* C22: the reader calls on_change at most once for a processed frame, and
\* once exactly when the frame changed an index, changed an active flag or
\* moved the status from SYNC to OK; a frame that repeats the value already
\* held is not notified
FrameNotifiesIffChanged ==
  [][FrameProcessed
      => /\ notified' \in {0, 1}
         /\ notified' = 1
              <=> \/ current_vals' # current_vals
                  \/ active_states' # active_states
                  \/ app_status = "SYNC" /\ app_status' = "OK"]_vars

\* on a ready engine a frame has repeated the index already held for Boost,
\* which is not 0, and nothing was notified
EchoNotNotified ==
  /\ op.name = "rx"
  /\ Len(op.msg) >= MIN_REPLY_LEN
  /\ SubSeq(op.msg, 7, 10) = SETTINGS["Boost"].addr
  /\ op.msg[11] = current_vals["Boost"]
  /\ current_vals["Boost"] = 1
  /\ app_status = "OK"
  /\ notified = 0

\* C23: the active flag of a row without a switch address is TRUE in every
\* state: no frame, cycle_effect, toggle_effect or apply_preset clears it
NoSwitchAlwaysActive ==
  \A k \in Keys : ~HasSw(k) => active_states[k]

\* the preset entry Var: "OFF" was applied to a ready engine whose Var index
\* was not 0: Var has no switch address, "OFF" is its first label, so the
\* index was written and the flag left TRUE
OffLabelOnRowWithoutSwitch ==
  /\ op.name = "preset"
  /\ op.data = <<[key |-> "Var", target |-> "OFF"]>>
  /\ app_status = "OK"
  /\ out # <<>>
  /\ current_vals["Var"] = 0
  /\ active_states["Var"]

\* the address a step of refresh_worker asks for
RequestedBy(o) ==
  IF o.name = "refresh_val" THEN SETTINGS[o.key].addr
                            ELSE SETTINGS[o.key].sw_addr

\* C24: pending_requests holds an address from the request for it up to the
\* next processed frame for it and at no other time: a request adds its
\* address (nothing is added when it is there already), a processed frame
\* removes its address, and counts towards the sync only if the address was
\* pending, so a second reply without a new request resolves nothing; no
\* other step adds or removes an entry, so an unanswered one stays
PendingFollowsRequests ==
  [][/\ op'.name \in {"refresh_val", "refresh_sw"}
          => /\ pending_requests' = pending_requests \cup {RequestedBy(op')}
             /\ synced_count' = synced_count
     /\ FrameProcessed
          => LET addr == SubSeq(op'.msg, 7, 10)
             IN /\ pending_requests' = pending_requests \ {addr}
                /\ synced_count' =
                     IF addr \in pending_requests /\ app_status = "SYNC"
                       THEN synced_count + 1 ELSE synced_count
     /\ (op'.name \notin {"refresh_val", "refresh_sw"} /\ ~FrameProcessed)
          => /\ pending_requests' = pending_requests
             /\ synced_count' = synced_count]_vars

\* while syncing, a frame for Var carried the index a former frame had
\* already stored; one address has been resolved so far and the two of Boost
\* are still pending
RepeatedReplyWhileSyncing ==
  /\ app_status = "SYNC"
  /\ op.name = "rx"
  /\ Len(op.msg) >= MIN_REPLY_LEN
  /\ SubSeq(op.msg, 7, 10) = SETTINGS["Var"].addr
  /\ op.msg[11] = 1
  /\ current_vals["Var"] = 1
  /\ notified = 0
  /\ synced_count = 1
  /\ pending_requests = {SETTINGS["Boost"].addr, SETTINGS["Boost"].sw_addr}

\* ------------------------------------------------------------------------
\* SpecPreset: apply_preset with presets of up to MaxPresetLen entries, from
\* every store the engine can hold once OK, with inbound frames in between
\* ------------------------------------------------------------------------

InitReady ==
  /\ app_status = "OK"
  /\ ports = TRUE
  /\ msg_cache = PrefilledCache
  /\ current_vals \in [Keys -> 0..MaxVal]
  /\ active_states \in {a \in [Keys -> BOOLEAN] : \A k \in Keys : ~HasSw(k) => a[k]}
  /\ pending_requests = {}
  /\ synced_count = TotalExpected
  /\ reader = "running"
  /\ refresh_i = 0
  /\ refresh_ph = "val"
  /\ since = QUIET_S
  /\ out = <<>>
  /\ notified = 0
  /\ notified_at = <<>>
  /\ timed_out = FALSE
  /\ was_held = FALSE
  /\ device = NoDevice
  /\ replied = RegistryAddrs
  /\ round = FullRound
  /\ op = NoOp
  /\ run = NoRun
  /\ pc = [t \in Threads |-> "idle"]
  /\ loc = [t \in Threads |-> IdleLoc]
  /\ rx = 0

NextPreset ==
  \/ \E data \in PresetData : HandleWebPreset(data)
  \/ \E msg \in Inbound : MidiWorkerMsg(msg)

SpecPreset == InitReady /\ [][NextPreset]_vars

\* the step is apply_preset run to its end
PresetCall == op'.name = "preset" /\ app_status = "OK"

\* positions of events equal to ev
PositionsOf(events, ev) == {i \in 1..Len(events) : events[i] = ev}

\* DT1 messages to the value or the switch address of k
FramesFor(events, k) ==
  SetFramesTo(events, SETTINGS[k].addr)
    \cup (IF HasSw(k) THEN SetFramesTo(events, SETTINGS[k].sw_addr) ELSE {})

\* C8: when apply_preset meets an entry naming a label of a key that has a
\* switch address and is inactive, it sends the switch-on message once, then
\* sleeps the settle delay, and any value message for that key comes after
\* both; the value message is there when the index differs
ActivationFirst ==
  [][PresetCall
      => \A i \in 1..Len(op'.data) :
           LET k == op'.data[i].key
               t == op'.data[i].target
           IN (k \in Keys /\ HasSw(k) /\ IsLabel(k, t) /\ ~active_states[k])
                => LET on == PositionsOf(out', SwitchFrame(k, 1))
                       vf == SetFramesTo(out', SETTINGS[k].addr)
                       idx == IndexOf(SETTINGS[k].vals, t)
                   IN /\ Cardinality(on) = 1
                      /\ \A p \in on :
                           /\ p < Len(out')
                           /\ out'[p + 1] = Sleep(SETTLE_MS)
                           /\ \A q \in vf : q > p + 1
                      /\ (current_vals[k] # idx) => vf # {}
                      /\ \A q \in vf : out'[q] = ValueFrame(k, idx)
                      /\ active_states'[k]]_vars

\* apply_preset has just switched Boost on and then written its value
ActivatedThenWritten ==
  /\ op.name = "preset"
  /\ \E p \in 1..Len(out) :
       /\ p + 2 <= Len(out)
       /\ out[p] = SwitchFrame("Boost", 1)
       /\ out[p + 1] = Sleep(SETTLE_MS)
       /\ out[p + 2] = ValueFrame("Boost", 1)

\* C9: an entry (X, "OFF") for a key with a switch address: if X is active it
\* becomes inactive, exactly one message goes to the switch address and it
\* carries 0, none goes to the value address and the index stays; if X is
\* inactive no message is sent for X
OffLaw ==
  [][PresetCall
      => \A i \in 1..Len(op'.data) :
           LET k == op'.data[i].key
           IN (k \in Keys /\ HasSw(k) /\ op'.data[i].target = "OFF")
                => /\ current_vals'[k] = current_vals[k]
                   /\ SetFramesTo(out', SETTINGS[k].addr) = {}
                   /\ ~active_states'[k]
                   /\ IF active_states[k]
                        THEN /\ Cardinality(SetFramesTo(out', SETTINGS[k].sw_addr)) = 1
                             /\ PositionsOf(out', SwitchFrame(k, 0)) # {}
                        ELSE FramesFor(out', k) = {}]_vars

\* apply_preset has just switched an active Boost off
SwitchedOffByPreset ==
  /\ op.name = "preset"
  /\ \E i \in 1..Len(op.data) : op.data[i] = [key |-> "Boost", target |-> "OFF"]
  /\ PositionsOf(out, SwitchFrame("Boost", 0)) # {}
  /\ ~active_states["Boost"]

\* the entry is one apply_preset acts on: a known key with one of its labels,
\* or "OFF" for a key with a switch address
Applicable(e) ==
  /\ e.key \in Keys
  /\ \/ e.target = "OFF" /\ HasSw(e.key)
     \/ \E j \in 1..NumVals(e.key) : SETTINGS[e.key].vals[j] = e.target

\* C10: apply_preset leaves the store and the output exactly as the same
\* preset without its entries of unknown key or unknown target would: those
\* entries send nothing and change nothing, the others are applied in order;
\* a preset made only of such entries sends nothing and changes nothing
SkipsUnknown ==
  [][PresetCall
      => LET kept == SelectSeq(op'.data, Applicable)
             res == ApplyPreset(kept)
         IN /\ current_vals' = res.vals
            /\ active_states' = res.act
            /\ out' = res.out
            /\ kept = <<>> => /\ out' = <<>>
                              /\ current_vals' = current_vals
                              /\ active_states' = active_states
            /\ \A k \in Keys :
                 (\A i \in 1..Len(kept) : kept[i].key # k)
                   => /\ FramesFor(out', k) = {}
                      /\ current_vals'[k] = current_vals[k]
                      /\ active_states'[k] = active_states[k]]_vars

\* apply_preset has just passed over an unknown key and an unknown label and
\* applied the entry after it
SkippedThenApplied ==
  /\ op.name = "preset"
  /\ Len(op.data) = 2
  /\ ~Applicable(op.data[1])
  /\ Applicable(op.data[2])
  /\ out # <<>>

\* C11: an apply_preset on a ready engine calls on_change exactly once, and
\* that call comes after every frame and every settle pause of the call:
\* none comes between two entries, however many entries changed the store
NotifiesOnceAtEnd ==
  [][PresetCall => /\ notified' = 1
                   /\ notified_at' = <<Len(out')>>]_vars

\* apply_preset has applied two entries, both with frames, and notified once
\* behind the last of them
NotifiedAfterTwoEntries ==
  /\ op.name = "preset"
  /\ Len(op.data) = 2
  /\ Applicable(op.data[1])
  /\ Applicable(op.data[2])
  /\ Len(out) >= 4
  /\ notified = 1
  /\ notified_at = <<Len(out)>>

\* C28: apply_preset given the preset that save_preset_to_button would make
\* of the store as it is sends nothing and leaves every index and flag as it
\* is; and apply_preset given the preset of the call just before it sends
\* nothing
SnapshotIsFixpoint ==
  [][PresetCall
      => /\ (Captured /\ op'.data = NewPresetData)
              => /\ out' = <<>>
                 /\ current_vals' = current_vals
                 /\ active_states' = active_states
         /\ (op.name = "preset" /\ op.data = op'.data)
              => /\ out' = <<>>
                 /\ current_vals' = current_vals
                 /\ active_states' = active_states]_vars

\* the preset just applied is the one the store gives when saved, with Boost
\* switched off and Var on its second label, and nothing was sent
SnapshotApplied ==
  /\ op.name = "preset"
  /\ Captured
  /\ op.data = NewPresetData
  /\ ~active_states["Boost"]
  /\ current_vals["Var"] = 1
  /\ out = <<>>

\* ------------------------------------------------------------------------
\* SpecSync: connect with its startup clock, the reader and refresh_worker,
\* with the bookkeeping of the addresses that were answered
\* ------------------------------------------------------------------------

NextSync ==
  \/ ConnectFound
  \/ ConnectRaised(timed_out)
  \/ ConnectNotFound
  \/ StartupTimeout
  \/ \E msg \in Inbound : MidiWorkerTracked(msg)
  \/ RefreshStart
  \/ RefreshValue
  \/ RefreshSwitch

SpecSync == Init /\ [][NextSync]_vars

\* C12 as stated: when connect has just moved the engine to SYNC, one request
\* per value address and per switch address has been issued and is pending
ConnectIssuesRequests ==
  op.name = "connect"
    => /\ Cardinality(pending_requests) = ExpectedReplies
       /\ pending_requests = RegistryAddrs

\* C12, amended: connect opens both ports and moves to SYNC without sending
\* or registering any request; the requests are sent by refresh_worker, one
\* per step, each registered as pending, and the round that ends has asked
\* for every value address and every switch address once, in table order
RequestsComeFromRefresh ==
  [][/\ op'.name = "connect"
          => /\ ports' /\ app_status' = "SYNC"
             /\ out' = <<>>
             /\ pending_requests' = pending_requests
     /\ op'.name = "refresh_val"
          => LET a == SETTINGS[KeyOrder[refresh_i]].addr
             IN /\ out' = <<RequestFrame(a), Sleep(PACING_MS)>>
                /\ pending_requests' = pending_requests \cup {a}
     /\ op'.name = "refresh_sw"
          => LET a == SETTINGS[KeyOrder[refresh_i]].sw_addr
             IN /\ out' = <<RequestFrame(a), Sleep(PACING_MS)>>
                /\ pending_requests' = pending_requests \cup {a}
     /\ (refresh_i # 0 /\ refresh_i' = 0)
          => /\ round' = FullRound
             /\ Len(round') = ExpectedReplies
             /\ {round'[i] : i \in 1..Len(round')} = RegistryAddrs]_vars

\* the first round of refresh_worker has ended while the engine is still in
\* SYNC: every address is pending and nothing has been answered
FirstRoundPending ==
  /\ app_status = "SYNC"
  /\ op.name \in {"refresh_val", "refresh_sw"}
  /\ refresh_i = 0
  /\ round = FullRound
  /\ pending_requests = RegistryAddrs
  /\ replied = {}

\* C13 as stated: after a discovery that found no KATANA port with 5 s or
\* more elapsed since start, the status is NO_USB
NotFoundTimesOut ==
  (op.name = "connect_notfound" /\ timed_out) => app_status = "NO_USB"

\* C19 as stated: whenever the status is OK, a reply has been processed since
\* connect for every value address and every switch address
ReadyMeansAllAnswered ==
  app_status = "OK" => replied = RegistryAddrs

\* ------------------------------------------------------------------------
\* SpecFail: the engine with a transport that can raise while the reader
\* polls it
\* ------------------------------------------------------------------------

\* what get_full_state_dict reports of the engine, but for the labels of
\* "settings"
GetFullStateDict == [active |-> active_states, status |-> app_status]

NextFail ==
  \/ ConnectFound
  \/ \E msg \in Inbound : MidiWorkerMsg(msg)
  \/ MidiWorkerRaised
  \/ RefreshStart
  \/ RefreshValue
  \/ RefreshSwitch
  \/ \E target \in Keys : HandleWebCycle(target)
  \/ \E target \in Keys : HandleWebToggle(target)

SpecFail == Init /\ [][NextFail]_vars

\* C14 as stated: once a transport error has ended the reader, the status in
\* the snapshot no longer says OK or SYNC
ReaderFailureVisible ==
  reader = "dead" => GetFullStateDict.status \notin {"OK", "SYNC"}

\* C15: once the transport has raised on read the reader is gone for good:
\* no reader runs again, connect is not entered again, no inbound message is
\* processed, synced_count and the status stay as they are, no pending entry
\* is ever resolved, and the store changes only through cycle_effect and
\* toggle_effect
ReaderStaysDead ==
  [][reader = "dead"
      => /\ reader' = "dead"
         /\ op'.name \notin {"rx", "rx_raised", "connect"}
         /\ synced_count' = synced_count
         /\ app_status' = app_status
         /\ pending_requests \subseteq pending_requests'
         /\ (current_vals' # current_vals \/ active_states' # active_states)
              => op'.name \in {"cycle", "toggle"}]_vars

\* the reader died on a ready engine and a whole refresh round went
\* unanswered after that
UnansweredAfterFailure ==
  /\ reader = "dead"
  /\ app_status = "OK"
  /\ op.name = "refresh_sw"
  /\ refresh_i = 0
  /\ pending_requests = RegistryAddrs

\* ------------------------------------------------------------------------
\* SpecQuiet: refresh_worker next to a button, the web interface and the
\* passing of time
\* ------------------------------------------------------------------------

NextQuiet ==
  \/ ConnectFound
  \/ \E msg \in Inbound : MidiWorkerMsg(msg)
  \/ RefreshStart
  \/ RefreshValue
  \/ RefreshSwitch
  \/ Tick
  \/ \E target \in PresetKeys : HandleHold(target)
  \/ \E target \in PresetKeys : HandleRelease(target)
  \/ \E target \in Keys : HandleWebCycle(target)

SpecQuiet == Init /\ [][NextQuiet]_vars

RefreshRequests == {"refresh_val", "refresh_sw"}

UserOps == {"cycle", "toggle", "preset"}

\* C17 as stated: an operation that took effect, whichever handler called
\* it, restarts the 2 s, and refresh_worker sends no request right behind it
UserOpHoldsRefreshBack ==
  [][/\ (op'.name \in UserOps /\ notified' > 0) => since' = 0
     /\ (op.name \in UserOps /\ notified > 0)
          => op'.name \notin RefreshRequests]_vars

\* ------------------------------------------------------------------------
\* SpecCodec: _create_sysex_msg applied to a command byte, an address and a
\* payload drawn from sample bytes
\* ------------------------------------------------------------------------

\* 7-bit bytes that make sums fall on, just below and just above 128
ByteSamples == {0, 1, 64, 127}

RECURSIVE SeqsOver(_, _)
SeqsOver(S, n) ==
  IF n = 0 THEN {<<>>}
  ELSE {Append(q, b) : q \in SeqsOver(S, n - 1), b \in S}

AddrSamples == SeqsOver(ByteSamples, 4)

PayloadSamples ==
  UNION {SeqsOver(ByteSamples, n) : n \in 1..MaxPayload} \cup {REQ_SIZE}

\* the arguments of one call: [cmd] + addr + data_or_size, held in op.msg
InitCodec ==
  /\ app_status = "INIT"
  /\ ports = FALSE
  /\ msg_cache = EmptyCache
  /\ current_vals = [k \in Keys |-> 0]
  /\ active_states = [k \in Keys |-> TRUE]
  /\ pending_requests = {}
  /\ synced_count = 0
  /\ reader = "none"
  /\ refresh_i = 0
  /\ refresh_ph = "val"
  /\ since = QUIET_S
  /\ out = <<>>
  /\ notified = 0
  /\ notified_at = <<>>
  /\ timed_out = FALSE
  /\ was_held = FALSE
  /\ device = NoDevice
  /\ replied = {}
  /\ round = <<>>
  /\ \E cmd \in {CMD_DT1, CMD_RQ1}, addr \in AddrSamples,
        data \in PayloadSamples :
       op = [NoOp EXCEPT !.name = "args", !.msg = <<cmd>> \o addr \o data]
  /\ run = NoRun
  /\ pc = [t \in Threads |-> "idle"]
  /\ loc = [t \in Threads |-> IdleLoc]
  /\ rx = 0

\* the call: the frame becomes the output of the step
BuildFrame ==
  /\ op.name = "args"
  /\ out' = <<Send(CreateSysexMsg(op.msg[1], SubSeq(op.msg, 2, 5),
                                  SubSeq(op.msg, 6, Len(op.msg))))>>
  /\ op' = [op EXCEPT !.name = "build"]
  /\ UNCHANGED engine
  /\ UNCHANGED <<reader, refresh_i, refresh_ph, since, notified, notified_at,
                 timed_out, replied, round, was_held, device, run, pc,
                 loc, rx>>

NextCodec == BuildFrame

SpecCodec == InitCodec /\ [][NextCodec]_vars

\* C18: the last byte c of every frame built is a 7-bit byte, the sum of the
\* address and payload bytes plus c is a multiple of 128, and c is the
\* checksum of exactly the bytes between the command byte and c: the header
\* and the command byte are not summed
ChecksumClosesFrame ==
  \A i \in 1..Len(out) :
    out[i].ev = "send"
      => LET m == out[i].msg
             c == m[Len(m)]
             body == SubSeq(m, 7, Len(m) - 1)
         IN /\ c \in 0..127
            /\ (SumSeq(body) + c) % 128 = 0
            /\ SubSeq(m, 1, 5) = KATANA_HEADER
            /\ op.name = "build"
                 => /\ m[6] = op.msg[1]
                    /\ body = SubSeq(op.msg, 2, Len(op.msg))

\* a frame was built whose address and payload add up to a multiple of 128
\* that is not 0: its checksum is 0
ChecksumZeroBuilt ==
  /\ op.name = "build"
  /\ Len(out) = 1
  /\ out[1].msg[Len(out[1].msg)] = 0
  /\ SumSeq(SubSeq(op.msg, 2, Len(op.msg))) >= 128

\* ------------------------------------------------------------------------
\* SpecConc: the button thread and the web thread each call cycle_effect
\* once, from any store the engine can hold once OK.  cycle_effect takes no
\* lock, so its statements interleave with the other caller's and with the
\* reader.  out and notified accumulate over the run; run counts the calls
\* begun on one key and keeps the index before the first.
\* ------------------------------------------------------------------------

SetPc(t, p) == pc' = [pc EXCEPT ![t] = p]

\* the guard, then current_idx = self.current_vals[key] and next_idx
CycBegin(t, key) ==
  /\ pc[t] = "idle"
  /\ IF NotReady \/ key \notin Keys
       THEN /\ SetPc(t, "done")
            /\ loc' = loc
            /\ run' = run
       ELSE /\ SetPc(t, "write")
            /\ loc' = [loc EXCEPT ![t] =
                         [key |-> key,
                          next_idx |-> NextIdx(current_vals[key], NumVals(key)),
                          start |-> current_vals[key]]]
            /\ run' = IF run.n > 0 /\ run.key = key
                        THEN [run EXCEPT !.n = run.n + 1]
                        ELSE [key |-> key, n |-> 1, start |-> current_vals[key],
                              frames |-> 0]
  /\ UNCHANGED engine
  /\ UNCHANGED <<reader, refresh_i, refresh_ph, since, out, notified, op, rx,
                 notified_at, timed_out, was_held,
                 device, replied, round>>

\* self.current_vals[key] = next_idx
CycWrite(t) ==
  /\ pc[t] = "write"
  /\ current_vals' = [current_vals EXCEPT ![loc[t].key] = loc[t].next_idx]
  /\ SetPc(t, "send")
  /\ UNCHANGED <<app_status, ports, msg_cache, active_states, pending_requests,
                 synced_count, reader, refresh_i, refresh_ph, since, out,
                 notified, op, run, loc, rx, notified_at, timed_out, was_held,
                 device, replied, round>>

\* self.outport.send(self.msg_cache[key][next_idx])
CycSend(t) ==
  /\ pc[t] = "send"
  /\ out' = Append(out, Send(msg_cache[loc[t].key][loc[t].next_idx + 1]))
  /\ run' = IF run.key = loc[t].key THEN [run EXCEPT !.frames = run.frames + 1]
                                    ELSE run
  /\ SetPc(t, "switch")
  /\ UNCHANGED engine
  /\ UNCHANGED <<reader, refresh_i, refresh_ph, since, notified, op, loc, rx,
                 notified_at, timed_out, was_held,
                 device, replied, round>>

\* if not self.active_states[key] and "sw_addr" in SETTINGS[key]: set active
CycSwitch(t) ==
  /\ pc[t] = "switch"
  /\ IF NeedsSwitchOn(active_states, loc[t].key)
       THEN /\ active_states' = [active_states EXCEPT ![loc[t].key] = TRUE]
            /\ SetPc(t, "switch_send")
       ELSE /\ active_states' = active_states
            /\ SetPc(t, "notify")
  /\ UNCHANGED <<app_status, ports, msg_cache, current_vals, pending_requests,
                 synced_count, reader, refresh_i, refresh_ph, since, out,
                 notified, op, run, loc, rx, notified_at, timed_out, was_held,
                 device, replied, round>>

\* the send of the switch-on message
CycSwitchSend(t) ==
  /\ pc[t] = "switch_send"
  /\ out' = Append(out, SwitchFrame(loc[t].key, 1))
  /\ SetPc(t, "notify")
  /\ UNCHANGED engine
  /\ UNCHANGED <<reader, refresh_i, refresh_ph, since, notified, op, run, loc, rx,
                 notified_at, timed_out, was_held,
                 device, replied, round>>

\* self.on_change()
CycNotify(t) ==
  /\ pc[t] = "notify"
  /\ notified' = notified + 1
  /\ notified_at' = Append(notified_at, Len(out))
  /\ SetPc(t, "done")
  /\ UNCHANGED engine
  /\ UNCHANGED <<reader, refresh_i, refresh_ph, since, out, op, run, loc, rx,
                 timed_out, was_held,
                 device, replied, round>>

\* the reader handles one message while the callers run
MidiWorkerDuring(msg) ==
  /\ ReaderAlive
  /\ ports
  /\ rx < MaxRx
  /\ rx' = rx + 1
  /\ MidiWorkerEffect(msg)
  /\ notified' = notified + (IF MidiWorkerChanged(msg) THEN 1 ELSE 0)
  /\ notified_at' = IF MidiWorkerChanged(msg) THEN Append(notified_at, Len(out))
                                              ELSE notified_at
  /\ UNCHANGED <<reader, refresh_i, refresh_ph, since, out, op, run, pc, loc,
                 timed_out, was_held,
                 device, replied, round>>

NextConc ==
  \/ \E t \in Threads, key \in PresetKeys : CycBegin(t, key)
  \/ \E t \in Threads : CycWrite(t)
  \/ \E t \in Threads : CycSend(t)
  \/ \E t \in Threads : CycSwitch(t)
  \/ \E t \in Threads : CycSwitchSend(t)
  \/ \E t \in Threads : CycNotify(t)
  \/ \E msg \in Inbound : MidiWorkerDuring(msg)

SpecConc == InitReady /\ [][NextConc]_vars

\* the DT1 messages to addr, in the order sent
RECURSIVE FramesToInOrder(_, _)
FramesToInOrder(events, addr) ==
  IF events = <<>> THEN <<>>
  ELSE LET rest == FramesToInOrder(Tail(events), addr)
       IN IF SetFramesTo(<<Head(events)>>, addr) # {}
            THEN <<Head(events)>> \o rest ELSE rest

\* C3: two cycle_effect calls on one key, one from each thread, begun from
\* index i with no inbound frame in between, end with index (i + 2) mod N
\* and with the value messages (i + 1) mod N, (i + 2) mod N sent in that order
CyclesSerialized ==
  (/\ \A t \in Threads : pc[t] = "done"
   /\ run.n = 2
   /\ rx = 0)
    => LET k == run.key
           n == NumVals(k)
       IN /\ current_vals[k] = (run.start + 2) % n
          /\ FramesToInOrder(out, SETTINGS[k].addr)
               = <<ValueFrame(k, (run.start + 1) % n),
                   ValueFrame(k, (run.start + 2) % n)>>

\* ------------------------------------------------------------------------
\* SpecTog: the button thread (handle_hold) and the web thread
\* (handle_web_control, action 'toggle') each call toggle_effect once, from
\* any store the engine can hold once OK.  toggle_effect takes no lock: the
\* read and the write of its flip, the second read for the byte and the send
\* interleave with the other caller's.  out and notified accumulate.
\* ------------------------------------------------------------------------

\* what no statement of toggle_effect touches
togRest ==
  <<app_status, ports, msg_cache, current_vals, pending_requests, synced_count,
    reader, refresh_i, refresh_ph, timed_out, replied, round, device, op, run,
    rx>>

\* handle_hold sets last_interaction_time and was_held ahead of the call;
\* then the guard is_invalid
TogBegin(t, key) ==
  /\ pc[t] = "idle"
  /\ IF t = "button"
       THEN since' = 0 /\ was_held' = TRUE
       ELSE since' = since /\ was_held' = was_held
  /\ IF ToggleInvalid(key)
       THEN SetPc(t, "done") /\ loc' = loc
       ELSE /\ SetPc(t, "tog_load")
            /\ loc' = [loc EXCEPT ![t] = [key |-> key, flipped |-> FALSE,
                                          val |-> 0]]
  /\ UNCHANGED togRest
  /\ UNCHANGED <<active_states, out, notified, notified_at>>

\* not self.active_states[key], the right-hand side of the flip
TogLoad(t) ==
  /\ pc[t] = "tog_load"
  /\ loc' = [loc EXCEPT ![t].flipped = ~active_states[loc[t].key]]
  /\ SetPc(t, "tog_store")
  /\ UNCHANGED togRest
  /\ UNCHANGED <<active_states, out, notified, notified_at, since, was_held>>

\* self.active_states[key] = ...
TogStore(t) ==
  /\ pc[t] = "tog_store"
  /\ active_states' = [active_states EXCEPT ![loc[t].key] = loc[t].flipped]
  /\ SetPc(t, "tog_val")
  /\ UNCHANGED togRest
  /\ UNCHANGED <<out, notified, notified_at, since, was_held, loc>>

\* val = 0x01 if self.active_states[key] else 0x00
TogVal(t) ==
  /\ pc[t] = "tog_val"
  /\ loc' = [loc EXCEPT ![t].val = SwitchByte(active_states[loc[t].key])]
  /\ SetPc(t, "tog_send")
  /\ UNCHANGED togRest
  /\ UNCHANGED <<active_states, out, notified, notified_at, since, was_held>>

\* self.outport.send(msg)
TogSend(t) ==
  /\ pc[t] = "tog_send"
  /\ out' = Append(out, SwitchFrame(loc[t].key, loc[t].val))
  /\ SetPc(t, "tog_notify")
  /\ UNCHANGED togRest
  /\ UNCHANGED <<active_states, notified, notified_at, since, was_held, loc>>

\* self.on_change()
TogNotify(t) ==
  /\ pc[t] = "tog_notify"
  /\ notified' = notified + 1
  /\ notified_at' = Append(notified_at, Len(out))
  /\ SetPc(t, "done")
  /\ UNCHANGED togRest
  /\ UNCHANGED <<active_states, out, since, was_held, loc>>

NextTog ==
  \/ \E t \in Threads, key \in PresetKeys : TogBegin(t, key)
  \/ \E t \in Threads : TogLoad(t)
  \/ \E t \in Threads : TogStore(t)
  \/ \E t \in Threads : TogVal(t)
  \/ \E t \in Threads : TogSend(t)
  \/ \E t \in Threads : TogNotify(t)

SpecTog == InitReady /\ [][NextTog]_vars

\* C27 as stated: when a hold and a web toggle of one row have both
\* returned, the last switch frame sent carries 1 if the row is active and 0
\* if it is not
TogglesOrdered ==
  (/\ \A t \in Threads : pc[t] = "done"
   /\ Len(out) = 2)
    => \E k \in Keys :
         out[2] = SwitchFrame(k, SwitchByte(active_states[k]))

\* ------------------------------------------------------------------------
\* SpecDev: the engine with an amplifier behind its ports.  The amplifier
\* takes every frame sent to it in order: it stores the value of a DT1 for
\* one of its addresses and answers an RQ1 with a DT1 carrying the value it
\* holds then.  Its answers wait in device.inbox until the reader polls
\* them.  The user operates the web interface and turns knobs on the
\* amplifier MaxEvents times in all.  refresh_worker and the reader are
\* threads that loop for ever: each of their steps is taken if it stays
\* possible.
\* ------------------------------------------------------------------------

SwitchKeys == {k \in Keys : HasSw(k)}

\* the byte the amplifier holds at addr
DeviceValue(d, addr) ==
  IF \E k \in Keys : SETTINGS[k].addr = addr
    THEN d.vals[CHOOSE k \in Keys : SETTINGS[k].addr = addr]
    ELSE IF d.act[CHOOSE k \in SwitchKeys : SETTINGS[k].sw_addr = addr]
           THEN 1 ELSE 0

\* the amplifier after one frame from the engine
DeviceHears(d, frame) ==
  LET addr == SubSeq(frame, 7, 10)
  IN IF addr \notin RegistryAddrs THEN d
     ELSE IF frame[6] = CMD_RQ1
       THEN [d EXCEPT !.inbox = Append(@, Reply(addr, DeviceValue(d, addr)))]
     ELSE [d EXCEPT
             !.vals = [k \in Keys |->
                         IF SETTINGS[k].addr = addr THEN frame[11] ELSE @[k]],
             !.act = [k \in Keys |->
                        IF HasSw(k) /\ SETTINGS[k].sw_addr = addr
                          THEN frame[11] = 1 ELSE @[k]]]

\* the amplifier after the frames among the output events of a step
RECURSIVE DeviceAfter(_, _)
DeviceAfter(d, events) ==
  IF events = <<>> THEN d
  ELSE DeviceAfter(IF Head(events).ev = "send"
                     THEN DeviceHears(d, Head(events).msg) ELSE d,
                   Tail(events))

InitDev ==
  /\ app_status = "INIT"
  /\ ports = FALSE
  /\ msg_cache = EmptyCache
  /\ current_vals = [k \in Keys |-> 0]
  /\ active_states = [k \in Keys |-> TRUE]
  /\ pending_requests = {}
  /\ synced_count = 0
  /\ reader = "none"
  /\ refresh_i = 0
  /\ refresh_ph = "val"
  /\ since = QUIET_S
  /\ out = <<>>
  /\ notified = 0
  /\ notified_at = <<>>
  /\ timed_out = FALSE
  /\ was_held = FALSE
  /\ device \in [vals : [Keys -> 0..MaxVal],
                 act : {a \in [Keys -> BOOLEAN] :
                          \A k \in Keys : ~HasSw(k) => a[k]},
                 inbox : {<<>>},
                 left : {MaxEvents}]
  /\ replied = {}
  /\ round = <<>>
  /\ op = NoOp
  /\ run = NoRun
  /\ pc = [t \in Threads |-> "idle"]
  /\ loc = [t \in Threads |-> IdleLoc]
  /\ rx = 0

\* the value request goes out and the amplifier answers it
DevRefreshValue ==
  /\ Len(device.inbox) < MaxInbox
  /\ RefreshValueStep
  /\ device' = DeviceAfter(device, out')

\* the switch request goes out and the amplifier answers it
DevRefreshSwitch ==
  /\ Len(device.inbox) < MaxInbox
  /\ RefreshSwitchStep
  /\ device' = DeviceAfter(device, out')

\* the reader polls the oldest answer
DevMidiWorker ==
  /\ device.inbox # <<>>
  /\ MidiWorkerStep(Head(device.inbox))
  /\ replied' = replied
  /\ device' = [device EXCEPT !.inbox = Tail(@)]

\* a cycle from the web interface; the amplifier takes the frames
DevWebCycle(target) ==
  /\ device.left > 0
  /\ Apply(CycleEffect(target))
  /\ since' = since
  /\ was_held' = was_held
  /\ run' = NoRun
  /\ op' = [NoOp EXCEPT !.name = "cycle", !.key = target]
  /\ device' = [DeviceAfter(device, out') EXCEPT !.left = @ - 1]

\* a toggle from the web interface; the amplifier takes the frame
DevWebToggle(target) ==
  /\ device.left > 0
  /\ Apply(ToggleEffect(target))
  /\ since' = since
  /\ was_held' = was_held
  /\ run' = NoRun
  /\ op' = [NoOp EXCEPT !.name = "toggle", !.key = target]
  /\ device' = [DeviceAfter(device, out') EXCEPT !.left = @ - 1]

\* a knob or switch of the amplifier is moved by hand: the engine is told
\* nothing
DevKnob(k, v, a) ==
  /\ device.left > 0
  /\ HasSw(k) \/ a
  /\ device' = [device EXCEPT !.vals[k] = v, !.act[k] = a, !.left = @ - 1]
  /\ out' = <<>>
  /\ notified' = 0
  /\ notified_at' = <<>>
  /\ op' = [NoOp EXCEPT !.name = "knob", !.key = k]
  /\ run' = NoRun
  /\ UNCHANGED engine
  /\ UNCHANGED <<reader, refresh_i, refresh_ph, since, timed_out, replied,
                 round, was_held>>
  /\ concIdle

NextDev ==
  \/ ConnectFound
  \/ RefreshStart
  \/ DevRefreshValue
  \/ DevRefreshSwitch
  \/ DevMidiWorker
  \/ \E target \in Keys : DevWebCycle(target)
  \/ \E target \in Keys : DevWebToggle(target)
  \/ \E k \in Keys, v \in 0..MaxVal, a \in BOOLEAN : DevKnob(k, v, a)

SpecDev ==
  /\ InitDev
  /\ [][NextDev]_vars
  /\ WF_vars(RefreshStart)
  /\ WF_vars(DevRefreshValue)
  /\ WF_vars(DevRefreshSwitch)
  /\ WF_vars(DevMidiWorker)

\* C25: an engine in SYNC reaches OK, given that refresh_worker and the
\* reader keep running and the amplifier answers every request; and an
\* engine in OK stays in OK
SyncLeadsToReady ==
  /\ (app_status = "SYNC") ~> (app_status = "OK")
  /\ [][app_status = "OK" => app_status' = "OK"]_vars

\* the sync has just ended on the answer to the last request of a round
SyncEndedByAnswer ==
  /\ app_status = "OK"
  /\ op.name = "rx"
  /\ notified = 1
  /\ synced_count = TotalExpected
  /\ pending_requests = {}
  /\ device.inbox = <<>>

\* the store mirrors the amplifier
Mirrored ==
  /\ current_vals = device.vals
  /\ \A k \in SwitchKeys : active_states[k] = device.act[k]

\* C26: once the user has stopped operating the engine and the amplifier,
\* an engine in OK ends with its store equal to the amplifier's values and
\* flags for good, whatever older answers were polled in between
DriftConverges == <>[](app_status = "OK" => Mirrored)

\* an answer older than a value the engine has sent since was polled: the
\* store has gone back to the old index while the amplifier holds the new
StaleAnswerPolled ==
  /\ app_status = "OK"
  /\ op.name = "rx"
  /\ notified = 1
  /\ device.left = 0
  /\ device.inbox = <<>>
  /\ current_vals["Boost"] # device.vals["Boost"]
  /\ op.msg[11] = current_vals["Boost"]
  /\ SubSeq(op.msg, 7, 10) = SETTINGS["Boost"].addr

====
